---- MODULE Spec2Model ----
(***************************************************************************)
(* Model of pybamm.BaseModel (src/pybamm/models/base_model.py): the        *)
(* equation registries of a model, the property setters, update() and      *)
(* check_well_posedness().                                                 *)
(*                                                                         *)
(* A registry field holds a REFERENCE to a Python dict.  The setters store *)
(* the dict they are given (no copy) and update() merges in place with     *)
(* dict.update, so two fields may hold the same dict object.  The model    *)
(* keeps, for every field, its contents (mem) and the set of fields that   *)
(* hold the same object (same); a write to an object is seen by all of     *)
(* its holders.                                                            *)
(*                                                                         *)
(* Python dicts are insertion-ordered; the order only selects which        *)
(* variable an error message names, so a dict is modelled as a function    *)
(* and an error by its exception class and message kind.  The asserts of   *)
(* update() and check_well_posedness() are modelled as executed (the       *)
(* default interpreter mode).  concatenated_rhs and                        *)
(* concatenated_initial_conditions are plain attributes that no operation  *)
(* modelled here reads or writes; they are left out.                       *)
(***************************************************************************)
EXTENDS Integers, Sequences, FiniteSets, TLC

VARIABLES
    mem,        \* mem[r][f]: contents of the dict held by field f of registry r
    same,       \* same[r][f]: the slots <<r2, f2>> holding the same dict object
    algebraic,  \* algebraic[r]: the list stored by the algebraic setter
    last,       \* the most recent call and its outcome (history)
    calls       \* number of calls made so far

vars == <<mem, same, algebraic, last, calls>>

(***************************************************************************)
(* Bounds of the model.                                                    *)
(***************************************************************************)
MaxCalls == 2        \* calls made after the registries are constructed
MaxSubmodels == 2    \* submodels passed to one update() call

Registries == {"host", "A", "B"}

EqnFields == {"rhs", "initial_conditions", "initial_conditions_ydot"}
MergedFields == {"rhs", "initial_conditions", "boundary_conditions", "variables"}
DictFields == EqnFields \cup {"boundary_conditions", "variables"}

(***************************************************************************)
(* The pybamm expression tree, which is not part of the sources: symbols   *)
(* with an id, a domain, a pre-order traversal and the predicate           *)
(* has_spatial_derivatives, and Scalar for lifting numbers.                *)
(***************************************************************************)
StateVars == {"c", "T"}
Numbers == {"0.0", "1.0"}

Scalar(n) == CASE n = "0.0" -> "Scalar(0.0)"
               [] n = "1.0" -> "Scalar(1.0)"

domain(e) == CASE e \in {"c", "div(grad(c))", "N(c)"} -> <<"negative electrode">>
               [] e \in {"T", "q(T)"} -> <<"positive electrode">>
               [] OTHER -> << >>

has_spatial_derivatives(e) == e \in {"div(grad(c))", "N(c)"}

pre_order(e) == CASE e = "N(c)" -> <<"N(c)", "grad(c)", "c">>
                  [] e = "div(grad(c))" -> <<"div(grad(c))", "grad(c)", "c">>
                  [] e = "q(T)" -> <<"q(T)", "T">>
                  [] OTHER -> <<e>>

id(e) == CASE e = "c" -> 11
           [] e = "T" -> 12
           [] e = "N(c)" -> 13
           [] e = "grad(c)" -> 14
           [] e = "div(grad(c))" -> 15
           [] e = "q(T)" -> 16
           [] e = "Scalar(0.0)" -> 17
           [] e = "Scalar(1.0)" -> 18

(***************************************************************************)
(* Python dict and list helpers.                                           *)
(***************************************************************************)
EmptyDict == [k \in {} |-> "Scalar(0.0)"]

Dicts(keys, values) == UNION {[ks -> values] : ks \in SUBSET keys}

\* d.update(e): the entries of e are added to d, e winning on a shared key
DictUpdate(d, e) ==
    [k \in (DOMAIN d) \cup (DOMAIN e) |-> IF k \in DOMAIN e THEN e[k] ELSE d[k]]

RECURSIVE SetToSeq(_)
SetToSeq(S) ==
    IF S = {} THEN << >>
    ELSE LET x == CHOOSE y \in S : TRUE IN <<x>> \o SetToSeq(S \ {x})

ToSet(seq) == {seq[i] : i \in DOMAIN seq}

\* [var.id for var in d.keys()]
KeyIds(d) == LET ks == SetToSeq(DOMAIN d) IN [i \in DOMAIN ks |-> id(ks[i])]

(***************************************************************************)
(* Outcomes of a call.                                                     *)
(***************************************************************************)
NoError == [raised |-> "none", arg |-> "none", msg |-> "none"]

DomainError(name) == [raised |-> "DomainError", arg |-> "none", msg |-> name]

\* assert cond, pybamm.ModelError(msg): a failing assert raises
\* AssertionError, the ModelError instance is only its argument
AssertModelError(msg) == [raised |-> "AssertionError", arg |-> "ModelError", msg |-> msg]

(***************************************************************************)
(* Reads and writes through references.                                    *)
(***************************************************************************)
\* the contents m with the dict object held by slot <<r, f>> replaced by d
\* in every slot that holds that object
Write(m, r, f, d) ==
    [x \in Registries |->
        [g \in DictFields |-> IF <<x, g>> \in same[r][f] THEN d ELSE m[x][g]]]

\* the argument of a setter: a dict the caller has just built, or the dict
\* returned by the accessor of slot <<reg, field>>
Fresh(d) == [kind |-> "fresh", dict |-> d, reg |-> "none", field |-> "none"]
Shared(r, f) == [kind |-> "shared", dict |-> EmptyDict, reg |-> r, field |-> f]

Passed(arg) == IF arg.kind = "fresh" THEN arg.dict ELSE mem[arg.reg][arg.field]

\* the dict object passed as arg now has contents d
WriteArg(arg, d) ==
    IF arg.kind = "fresh" THEN mem ELSE Write(mem, arg.reg, arg.field, d)

\* slot <<r, f>> is rebound to the object passed as arg
Rebind(r, f, arg) ==
    LET old == same[r][f]
        new == IF arg.kind = "fresh" THEN {<<r, f>>}
               ELSE same[arg.reg][arg.field] \cup {<<r, f>>}
    IN  [x \in Registries |->
            [g \in DictFields |->
                IF <<x, g>> \in new THEN new
                ELSE IF <<x, g>> \in old THEN old \ {<<r, f>>}
                ELSE same[x][g]]]

Call(op, r, f, arg, subs, err, at) ==
    [op |-> op, reg |-> r, field |-> f, arg |-> arg, submodels |-> subs,
     err |-> err, at |-> at]

(***************************************************************************)
(* BaseModel._set_dict and the three setters that go through it.           *)
(***************************************************************************)
\* for var, eqn in dict.items(): if isinstance(eqn, numbers.Number): ...
LiftNumbers(d) ==
    [var \in DOMAIN d |-> IF d[var] \in Numbers THEN Scalar(d[var]) ELSE d[var]]

\* mutant of DomainsConsistent: any() in place of all()
DomainsConsistent_Any(d) ==
    \/ DOMAIN d = {}
    \/ \E variable \in DOMAIN d :
          \/ domain(variable) = domain(d[variable])
          \/ domain(d[variable]) = << >>

\* all([variable.domain == equation.domain or equation.domain == [] ...])
DomainsConsistent(d) ==
    \A variable \in DOMAIN d :
        \/ domain(variable) = domain(d[variable])
        \/ domain(d[variable]) = << >>

\* the dict as _set_dict leaves it, and the error it raises (if any)
set_dict(d, name) ==
    LET lifted == LiftNumbers(d)
    IN  [dict |-> lifted,
         err |-> IF DomainsConsistent(lifted) THEN NoError ELSE DomainError(name)]

\* mutant of SetEqnField: the field is assigned before the check raises
SetEqnField_AssignFirst(r, f, arg) ==
    LET res == set_dict(Passed(arg), f)
        m1 == WriteArg(arg, res.dict)
    IN  /\ calls < MaxCalls
        /\ same' = Rebind(r, f, arg)
        /\ mem' = [m1 EXCEPT ![r][f] = res.dict]
        /\ last' = Call("set", r, f, arg, << >>, res.err, 0)
        /\ calls' = calls + 1
        /\ UNCHANGED algebraic

\* self._<f> = self._set_dict(arg, "<f>"): the numbers of the passed dict
\* are lifted in place, then the check runs, then the field is assigned
SetEqnField(r, f, arg) ==
    LET res == set_dict(Passed(arg), f)
        m1 == WriteArg(arg, res.dict)
    IN  /\ calls < MaxCalls
        /\ IF res.err = NoError
             THEN /\ same' = Rebind(r, f, arg)
                  /\ mem' = [m1 EXCEPT ![r][f] = res.dict]
             ELSE /\ same' = same
                  /\ mem' = m1
        /\ last' = Call("set", r, f, arg, << >>, res.err, 0)
        /\ calls' = calls + 1
        /\ UNCHANGED algebraic

EqnLiterals == Dicts(StateVars, {"1.0", "q(T)"})
EqnArgs == {Fresh(d) : d \in EqnLiterals}
               \cup {Shared(q, g) : q \in Registries, g \in EqnFields}

rhs_setter(r) == \E arg \in EqnArgs : SetEqnField(r, "rhs", arg)

initial_conditions_setter(r) ==
    \E arg \in EqnArgs : SetEqnField(r, "initial_conditions", arg)

initial_conditions_ydot_setter(r) ==
    \E arg \in EqnArgs : SetEqnField(r, "initial_conditions_ydot", arg)

(***************************************************************************)
(* The setters that store their argument without a domain check.           *)
(***************************************************************************)
\* boundary_conditions[var][side] = pybamm.Scalar(eqn) for every number
LiftBoundaryNumbers(b) ==
    [var \in DOMAIN b |->
        [side \in DOMAIN b[var] |->
            IF b[var][side] \in Numbers THEN Scalar(b[var][side]) ELSE b[var][side]]]

SetBoundaryConditions(r, arg) ==
    LET lifted == LiftBoundaryNumbers(Passed(arg))
        m1 == WriteArg(arg, lifted)
    IN  /\ calls < MaxCalls
        /\ same' = Rebind(r, "boundary_conditions", arg)
        /\ mem' = [m1 EXCEPT ![r]["boundary_conditions"] = lifted]
        /\ last' = Call("set", r, "boundary_conditions", arg, << >>, NoError, 0)
        /\ calls' = calls + 1
        /\ UNCHANGED algebraic

BoundaryKeys == {"c", "N(c)", "T"}
BoundaryValues == {[left |-> "0.0", right |-> "0.0"],
                   [left |-> "Scalar(1.0)", right |-> "0.0"]}
BoundaryLiterals ==
    {b \in Dicts(BoundaryKeys, BoundaryValues) : Cardinality(DOMAIN b) <= 1}
BoundaryArgs == {Fresh(b) : b \in BoundaryLiterals}
                    \cup {Shared(q, "boundary_conditions") : q \in Registries}

boundary_conditions_setter(r) ==
    \E arg \in BoundaryArgs : SetBoundaryConditions(r, arg)

SetVariables(r, arg) ==
    /\ calls < MaxCalls
    /\ same' = Rebind(r, "variables", arg)
    /\ mem' = [mem EXCEPT ![r]["variables"] = Passed(arg)]
    /\ last' = Call("set", r, "variables", arg, << >>, NoError, 0)
    /\ calls' = calls + 1
    /\ UNCHANGED algebraic

VariableLiterals == Dicts({"concentration"}, {"c", "Scalar(1.0)"})
VariableArgs == {Fresh(d) : d \in VariableLiterals}
                    \cup {Shared(q, "variables") : q \in Registries}

variables_setter(r) == \E arg \in VariableArgs : SetVariables(r, arg)

AlgebraicLiterals == {<< >>, <<"q(T)">>}

algebraic_setter(r) ==
    \E alg \in AlgebraicLiterals :
        /\ calls < MaxCalls
        /\ algebraic' = [algebraic EXCEPT ![r] = alg]
        /\ last' = Call("set", r, "algebraic", Fresh(EmptyDict), << >>, NoError, 0)
        /\ calls' = calls + 1
        /\ UNCHANGED <<mem, same>>

\* model[key]: self.rhs[key], a KeyError when key is absent
getitem(m, r, key) ==
    IF key \in DOMAIN m[r]["rhs"] THEN m[r]["rhs"][key] ELSE "KeyError"

(***************************************************************************)
(* BaseModel.update(submodels...).                                            *)
(***************************************************************************)
\* len(vars) == len(set(vars))
NoDuplicates(ids) == Len(ids) = Cardinality(ToSet(ids))

\* mutant of MergeField: the submodel's dict replaces the host's contents
MergeField_Replace(m, h, submodel, f) == Write(m, h, f, m[submodel][f])

\* self._<f>.update(submodel.<f>): an in-place write to the host's dict
MergeField(m, h, submodel, f) ==
    Write(m, h, f, DictUpdate(m[h][f], m[submodel][f]))

\* the four dict.update calls, in the order of the code
MergeSubmodel(m, h, submodel) ==
    LET m1 == MergeField(m, h, submodel, "rhs")
        m2 == MergeField(m1, h, submodel, "initial_conditions")
        m3 == MergeField(m2, h, submodel, "boundary_conditions")
    IN  MergeField(m3, h, submodel, "variables")

\* mutant of update_from: the submodel is merged before the duplicate check
RECURSIVE update_from_MergeFirst(_, _, _, _)
update_from_MergeFirst(m, h, submodels, i) ==
    IF i > Len(submodels) THEN [mem |-> m, err |-> NoError, at |-> 0]
    ELSE LET submodel == submodels[i]
             ids == KeyIds(m[submodel]["rhs"]) \o KeyIds(m[h]["rhs"])
             merged == MergeSubmodel(m, h, submodel)
         IN  IF Len(ids) # Cardinality(ToSet(ids))
               THEN [mem |-> merged,
                     err |-> AssertModelError("duplicate variables"), at |-> i]
               ELSE update_from_MergeFirst(merged, h, submodels, i + 1)

\* the loop over the submodels from position i on, on contents m: the
\* contents when the call returns or raises, the error and the position of
\* the submodel that was rejected
RECURSIVE update_from(_, _, _, _)
update_from(m, h, submodels, i) ==
    IF i > Len(submodels) THEN [mem |-> m, err |-> NoError, at |-> 0]
    ELSE LET submodel == submodels[i]
             ids == KeyIds(m[submodel]["rhs"]) \o KeyIds(m[h]["rhs"])
         IN  IF ~NoDuplicates(ids)
               THEN [mem |-> m, err |-> AssertModelError("duplicate variables"),
                     at |-> i]
               ELSE update_from(MergeSubmodel(m, h, submodel), h, submodels, i + 1)

SubmodelLists ==
    UNION {[1..n -> Registries] : n \in 1..MaxSubmodels}

update(h) ==
    \E submodels \in SubmodelLists :
        LET res == update_from(mem, h, submodels, 1)
        IN  /\ calls < MaxCalls
            /\ mem' = res.mem
            /\ last' = Call("update", h, "none", Fresh(EmptyDict), submodels,
                            res.err, res.at)
            /\ calls' = calls + 1
            /\ UNCHANGED <<same, algebraic>>

(***************************************************************************)
(* BaseModel.check_well_posedness().                                       *)
(***************************************************************************)
\* mutant of InPreOrder: only the key itself is compared, not its subtree
InPreOrder_KeyOnly(var, key) == id(var) = id(key)

\* any([var.id == symbol.id for symbol in key.pre_order()])
InPreOrder(var, key) ==
    \E i \in DOMAIN pre_order(key) : id(var) = id(pre_order(key)[i])

HasBoundaryCondition(var, bcs) == \E key \in DOMAIN bcs : InPreOrder(var, key)

\* the error check_well_posedness raises on the registry reg (a record of
\* its dicts), NoError when it returns
well_posedness(reg) ==
    IF \E var \in DOMAIN reg["rhs"] : var \notin DOMAIN reg["initial_conditions"]
      THEN AssertModelError("no initial condition")
    ELSE IF \E var \in DOMAIN reg["rhs"] :
                /\ has_spatial_derivatives(reg["rhs"][var])
                /\ ~HasBoundaryCondition(var, reg["boundary_conditions"])
      THEN AssertModelError("no boundary condition")
    ELSE NoError

check_well_posedness(r) ==
    /\ calls < MaxCalls
    /\ last' = Call("check", r, "none", Fresh(EmptyDict), << >>,
                    well_posedness(mem[r]), 0)
    /\ calls' = calls + 1
    /\ UNCHANGED <<mem, same, algebraic>>

(***************************************************************************)
(* Construction.  BaseModel.__init__ leaves every collection empty; a      *)
(* submodel's constructor then assigns its equations through the setters.  *)
(***************************************************************************)
BaseModel ==
    [rhs |-> EmptyDict, initial_conditions |-> EmptyDict,
     initial_conditions_ydot |-> EmptyDict, boundary_conditions |-> EmptyDict,
     variables |-> EmptyDict, algebraic |-> << >>]

\* c in the negative electrode: a diffusion equation, a numeric initial
\* value and zero-flux conditions keyed by the flux N(c)
Diffusion ==
    [rhs |-> [c |-> "div(grad(c))"], initial_conditions |-> [c |-> "1.0"],
     initial_conditions_ydot |-> EmptyDict,
     boundary_conditions |-> [x \in {"N(c)"} |-> [left |-> "0.0", right |-> "0.0"]],
     variables |-> [concentration |-> "c"], algebraic |-> << >>]

\* T in the positive electrode, with entries of its own for c outside rhs
Thermal ==
    [rhs |-> [T |-> "q(T)"],
     initial_conditions |-> [T |-> "1.0", c |-> "div(grad(c))"],
     initial_conditions_ydot |-> [T |-> "1.0"],
     boundary_conditions |-> [T |-> [left |-> "Scalar(1.0)", right |-> "0.0"]],
     variables |-> [concentration |-> "Scalar(1.0)"], algebraic |-> <<"q(T)">>]

Submodels == {BaseModel, Diffusion, Thermal}

\* the dicts of a registry whose constructor assigned the literals of t
Constructed(t) ==
    [f \in DictFields |->
        IF f \in EqnFields THEN set_dict(t[f], f).dict
        ELSE IF f = "boundary_conditions" THEN LiftBoundaryNumbers(t[f])
        ELSE t[f]]

\* the host is created by BaseModel(), A and B by any of the constructors
Init ==
    \E t \in {u \in [Registries -> Submodels] : u["host"] = BaseModel} :
        /\ mem = [r \in Registries |-> Constructed(t[r])]
        /\ same = [r \in Registries |-> [f \in DictFields |-> {<<r, f>>}]]
        /\ algebraic = [r \in Registries |-> t[r].algebraic]
        /\ last = Call("init", "none", "none", Fresh(EmptyDict), << >>, NoError, 0)
        /\ calls = 0

Next ==
    \E r \in Registries :
        \/ rhs_setter(r)
        \/ initial_conditions_setter(r)
        \/ initial_conditions_ydot_setter(r)
        \/ boundary_conditions_setter(r)
        \/ variables_setter(r)
        \/ algebraic_setter(r)
        \/ update(r)
        \/ check_well_posedness(r)

Spec == Init /\ [][Next]_vars

(***************************************************************************)
(* A second specification for check_well_posedness alone: one registry     *)
(* in any state its setters can leave it in, then the check.               *)
(***************************************************************************)
EqnContents ==
    {set_dict(d, "rhs").dict :
        d \in {e \in Dicts(StateVars, {"1.0", "div(grad(c))", "q(T)"}) :
                  set_dict(e, "rhs").err = NoError}}

BoundaryContents ==
    {LiftBoundaryNumbers(b) : b \in Dicts(BoundaryKeys, BoundaryValues)}

InitWellPosed ==
    \E rhs \in EqnContents, ics \in EqnContents, bcs \in BoundaryContents :
        /\ mem = [r \in Registries |->
                    IF r = "host"
                      THEN [Constructed(BaseModel) EXCEPT
                                !["rhs"] = rhs,
                                !["initial_conditions"] = ics,
                                !["boundary_conditions"] = bcs]
                      ELSE Constructed(BaseModel)]
        /\ same = [r \in Registries |-> [f \in DictFields |-> {<<r, f>>}]]
        /\ algebraic = [r \in Registries |-> << >>]
        /\ last = Call("init", "none", "none", Fresh(EmptyDict), << >>, NoError, 0)
        /\ calls = 0

NextWellPosed == \E r \in Registries : check_well_posedness(r)

SpecWellPosed == InitWellPosed /\ [][NextWellPosed]_vars

(***************************************************************************)
(* Properties.                                                             *)
(***************************************************************************)
\* ids of the expressions in the traversal of key
SubtreeIds(key) == {id(pre_order(key)[i]) : i \in DOMAIN pre_order(key)}

\* invariant I3 of a registry
I3(reg) ==
    /\ DOMAIN reg["rhs"] \subseteq DOMAIN reg["initial_conditions"]
    /\ \A v \in DOMAIN reg["rhs"] :
          has_spatial_derivatives(reg["rhs"][v]) =>
              id(v) \in UNION {SubtreeIds(k) : k \in DOMAIN reg["boundary_conditions"]}

\* C1: check_well_posedness returns without an error exactly when the
\* registry satisfies I3, and raises in every other registry state.
C1_PassesExactlyWhenI3 ==
    last.op = "check" => ((last.err = NoError) <=> I3(mem[last.reg]))

\* C1 witness: the check passed on a registry whose only boundary-condition
\* keys holding c are derived expressions (c is no bare key)
C1_Witness ==
    /\ last.op = "check" /\ last.err = NoError
    /\ "c" \in DOMAIN mem[last.reg]["rhs"]
    /\ has_spatial_derivatives(mem[last.reg]["rhs"]["c"])
    /\ "c" \notin DOMAIN mem[last.reg]["boundary_conditions"]
    /\ "N(c)" \in DOMAIN mem[last.reg]["boundary_conditions"]

\* the call made by the step and what it was given
Updated == last'.op = "update"
Host == last'.reg
Submodel(j) == last'.submodels[j]
Given == IF last'.arg.kind = "fresh" THEN last'.arg.dict
         ELSE mem[last'.arg.reg][last'.arg.field]

\* the host and the submodels of the call are pairwise different
\* registries, and none of their fields shares its dict with another field
Independent ==
    /\ Host \notin ToSet(last'.submodels)
    /\ Cardinality(ToSet(last'.submodels)) = Len(last'.submodels)
    /\ \A r \in {Host} \cup ToSet(last'.submodels) : \A f \in DictFields :
          same[r][f] = {<<r, f>>}

\* C2 as stated (checked on calls whose registries share nothing): an
\* update() call that fails with the duplicate-variable error leaves the
\* four merged collections of the host as they were.
C2_FailedUpdateMergesNothing ==
    [][(Updated /\ Independent /\ last'.err # NoError) =>
          \A f \in MergedFields : mem'[Host][f] = mem[Host][f]]_vars

\* C2 as amended: if the first submodel is rejected nothing has changed in
\* any registry; if a later submodel is rejected, the keys of every
\* submodel before it are in the host.
C2_FailedUpdateKeepsEarlierMerges ==
    [][(Updated /\ last'.err # NoError) =>
          /\ last'.at >= 1
          /\ last'.at = 1 => mem' = mem
          /\ \A j \in 1..(last'.at - 1) : \A f \in MergedFields :
                DOMAIN mem[Submodel(j)][f] \subseteq DOMAIN mem'[Host][f]]_vars

\* C2 witness: the second submodel of a call was rejected after the first
\* one had added an rhs entry to the host
C2_Witness ==
    /\ last.op = "update" /\ last.err # NoError /\ last.at = 2
    /\ last.submodels[1] # last.reg
    /\ DOMAIN mem[last.submodels[1]]["rhs"] # {}
    /\ same[last.reg]["rhs"] = {<<last.reg, "rhs">>}

Compatible(f) == IF f \in EqnFields THEN EqnFields ELSE {f}

C4_DomainConsistency ==
    \A r \in Registries : \A f \in {"rhs", "initial_conditions"} :
        \A v \in DOMAIN mem[r][f] :
            LET eqn == mem[r][f][v]
            IN  domain(eqn) # << >> => domain(eqn) = domain(v)

\* C4 witness: after a merge a registry holds, for c and for T, an equation
\* with the (non-empty) domain of its variable
C4_Witness ==
    /\ last.op = "update" /\ last.err = NoError
    /\ DOMAIN mem[last.reg]["rhs"] = {"c", "T"}
    /\ \A v \in {"c", "T"} : domain(mem[last.reg]["rhs"][v]) = domain(v)

\* a pair with unequal domains, the equation's not empty
BadPair(d) ==
    \E v \in DOMAIN d :
        /\ d[v] \notin Numbers
        /\ domain(d[v]) # << >>
        /\ domain(d[v]) # domain(v)

\* C5: a set of rhs, initial_conditions or initial_conditions_ydot with a
\* dict holding a bad pair raises DomainError and leaves every collection
\* of the registry as it was.
C5_RejectedSetChangesNothing ==
    [][(last'.op = "set" /\ last'.field \in EqnFields /\ BadPair(Given)) =>
          /\ last'.err.raised = "DomainError"
          /\ mem'[Host] = mem[Host]
          /\ same'[Host] = same[Host]
          /\ algebraic'[Host] = algebraic[Host]]_vars

\* C5 witness: a dict with a bad pair and a numeric pair was rejected by a
\* registry that holds equations
C5_Witness ==
    /\ last.op = "set" /\ last.err.raised = "DomainError"
    /\ last.arg.kind = "fresh"
    /\ \E v \in DOMAIN last.arg.dict : last.arg.dict[v] \in Numbers
    /\ mem[last.reg][last.field] # EmptyDict

\* ids of the rhs keys of registry r before the call
RhsIds(r) == {id(v) : v \in DOMAIN mem[r]["rhs"]}

\* submodel j shares an rhs id with the host or with an earlier submodel,
\* all taken as they were before the call
Clashes(j) ==
    RhsIds(Submodel(j)) \cap
        (RhsIds(Host) \cup UNION {RhsIds(Submodel(i)) : i \in 1..(j - 1)}) # {}

\* the host is not passed to itself and its five collections are five
\* different dicts
PlainHost ==
    /\ Host \notin ToSet(last'.submodels)
    /\ \A f \in DictFields : \A g \in DictFields \ {f} :
          <<Host, g>> \notin same[Host][f]

\* C6 (checked on calls with such a host): update() rejects the first
\* submodel, in the order passed, that shares an rhs id with the host or
\* with a submodel before it, and no other; without such a submodel it
\* succeeds.
C6_RejectsFirstClash ==
    [][(Updated /\ PlainHost) =>
          LET clashing == {j \in DOMAIN last'.submodels : Clashes(j)}
          IN  IF clashing = {} THEN last'.err = NoError
              ELSE /\ last'.err # NoError
                   /\ last'.at \in clashing
                   /\ \A j \in clashing : last'.at <= j]_vars

\* C7 (checked on calls with such a host): update(A, B) on a host with
\* empty rhs, A and B with disjoint rhs ids, succeeds; the host's rhs then has |A.rhs| + |B.rhs| entries and
\* host[key] is the submodel's value for every rhs key of A and of B.
C7_DisjointCompositionSucceeds ==
    [][(/\ Updated
        /\ PlainHost
        /\ Len(last'.submodels) = 2
        /\ Submodel(1) # Submodel(2)
        /\ RhsIds(Host) = {}
        /\ RhsIds(Submodel(1)) \cap RhsIds(Submodel(2)) = {}) =>
          /\ last'.err = NoError
          /\ Cardinality(DOMAIN mem'[Host]["rhs"]) =
                Cardinality(DOMAIN mem[Submodel(1)]["rhs"])
                    + Cardinality(DOMAIN mem[Submodel(2)]["rhs"])
          /\ \A j \in 1..2 : \A k \in DOMAIN mem[Submodel(j)]["rhs"] :
                getitem(mem', Host, k) = mem[Submodel(j)]["rhs"][k]]_vars

\* C8: update() and check_well_posedness() fail with a ModelError and with
\* no other kind of error.
C8_FailuresAreModelErrors ==
    (last.op \in {"update", "check"} /\ last.err # NoError) =>
        last.err.raised = "ModelError"

\* C9: when the host and every submodel pass check_well_posedness before a
\* successful update(), the host passes it after the call.
C9_UpdatePreservesWellPosedness ==
    [][(/\ Updated
        /\ last'.err = NoError
        /\ well_posedness(mem[Host]) = NoError
        /\ \A j \in DOMAIN last'.submodels :
              well_posedness(mem[Submodel(j)]) = NoError) =>
          well_posedness(mem'[Host]) = NoError]_vars

\* C10: a call on one registry leaves every collection of every other
\* registry as it was.
C10_OtherRegistriesUnchanged ==
    [][\A y \in Registries \ {Host} :
          mem'[y] = mem[y] /\ algebraic'[y] = algebraic[y]]_vars

====
